---- MODULE Spec2Model ----
(***************************************************************************)
(* Model of the impactproof check engine: the four analyzers               *)
(* run_completeness, run_duplicates, run_consistency and run_drift, each   *)
(* a function (table, config) -> result.                                   *)
(*                                                                         *)
(* Text is modelled as a sequence of one-character strings so that         *)
(* str.strip() and str() are computed, not assumed.  A cell of the table   *)
(* is a record [k, v]: k is "null" (NaN, as read_csv yields for a blank),  *)
(* "str" (an object cell) or "int" (a numeric cell, v its decimal text).   *)
(* Floats are modelled as exact fractions [num, den] with den > 0; NaN is  *)
(* the fraction with den = 0.  Thresholds are given in percent.            *)
(*                                                                         *)
(* Each check has its own specification: the table is loaded (Init), then  *)
(* the check is called once with a configuration (its Run action).         *)
(* Configurations list distinct field names; key lists are non-empty and   *)
(* baseline_periods is at least 1.  An exception leaving a check is the    *)
(* result Raised(...).                                                     *)
(*                                                                         *)
(* Two further specifications cover the rest of a run.  SpecAggregate      *)
(* starts from four returned results and writes the scorecard, the         *)
(* combined issues and the fix list; there check, field and message are    *)
(* character sequences, so that the order of groupby and sort_values is    *)
(* computed from code points.  SpecStandardize applies                     *)
(* apply_missing_labels to a table with a text and a numeric column.       *)
(***************************************************************************)
EXTENDS Integers, Sequences, FiniteSets, TLC

VARIABLES df, cfg, result, pc,
          df_std, checks, scorecard, issues_combined, fix_list

\* What a run holds besides the call of one check: the standardized table,
\* the four results (comp, dups, cons, drift), the scorecard, the combined
\* issues and the fix list
runVars == <<df_std, checks, scorecard, issues_combined, fix_list>>

vars == <<df, cfg, result, pc, runVars>>

\* ------------------------------------------------------------------ bounds

\* Largest number of rows of a generated table, per check
MaxRows == 2

MaxDupRows == 3

MaxConsRows == 2

\* Largest number of rules of a generated consistency configuration
MaxRules == 2

MaxDriftRows == 4

\* Largest baseline_periods of a generated drift configuration
MaxBaseline == 2

\* ------------------------------------------------------------ text, cells

Null == [k |-> "null", v |-> <<>>]

StrCell(s) == [k |-> "str", v |-> s]

IntCell(s) == [k |-> "int", v |-> s]

\* pd.isna(val) / Series.isna()
isna(val) == val.k = "null"

\* str(val), Series.astype(str): NaN prints as "nan"
str(val) == IF val.k = "null" THEN <<"n", "a", "n">> ELSE val.v

IsSpace(c) == c \in {" ", "\t"}

RECURSIVE lstrip(_)
lstrip(s) == IF s # <<>> /\ IsSpace(Head(s)) THEN lstrip(Tail(s)) ELSE s

RECURSIVE rstrip(_)
rstrip(s) ==
    IF s # <<>> /\ IsSpace(s[Len(s)]) THEN rstrip(SubSeq(s, 1, Len(s) - 1)) ELSE s

\* str.strip()
strip(s) == rstrip(lstrip(s))

\* Text literals used by the program
T_empty == <<>>
T_NA == <<"N", "A">>
T_UNKNOWN == <<"U", "N", "K", "N", "O", "W", "N">>
T_NO == <<"N", "O">>

\* Optional values (None or a value): record_index, field
None == <<>>
Some(x) == <<x>>

\* ------------------------------------------------------------- fractions

Frac(n, d) == [num |-> n, den |-> d]

NaN == Frac(0, 0)

IsNaN(a) == a.den = 0

\* a >= b on floats: False when either side is NaN
FGe(a, b) == ~IsNaN(a) /\ ~IsNaN(b) /\ a.num * b.den >= b.num * a.den

\* a <= b on floats
FLe(a, b) == FGe(b, a)

FEq(a, b) == FGe(a, b) /\ FGe(b, a)

\* a - b (NaN if either is)
FSub(a, b) ==
    IF IsNaN(a) \/ IsNaN(b) THEN NaN
    ELSE Frac(a.num * b.den - b.num * a.den, a.den * b.den)

\* a / b for b # 0 (NaN if either is), the denominator kept positive
FDiv(a, b) ==
    IF IsNaN(a) \/ IsNaN(b) THEN NaN
    ELSE IF b.num < 0 THEN Frac(-(a.num * b.den), a.den * (-b.num))
    ELSE Frac(a.num * b.den, a.den * b.num)

\* A float printed in a message: the number formatting ({:.1%}, {:.1f}) is
\* not modelled, the value is printed as num/den
FText(a) == ToString(a.num) \o "/" \o ToString(a.den)

\* abs(a)
FAbs(a) == Frac(IF a.num < 0 THEN -a.num ELSE a.num, a.den)

\* A threshold given in percent, as the float it configures
Pct(p) == Frac(p, 100)

\* --------------------------------------------------------------- tables

\* len(df)
NRows(d) == Len(d.rows)

\* df.index of a freshly read table: RangeIndex 0 .. n-1
IndexOf(i) == i - 1

\* The tables of at most max rows over the columns cols with cells in vals
Tables(cols, vals, max) ==
    { [cols |-> cols, rows |-> r] :
        r \in UNION { [1..n -> [cols -> vals]] : n \in 0..max } }

\* The tables of at most max rows whose column c holds cells of colvals[c]
TablesBy(colvals, max) ==
    LET Rows == { r \in [DOMAIN colvals -> UNION { colvals[c] : c \in DOMAIN colvals }] :
                    \A c \in DOMAIN colvals : r[c] \in colvals[c] }
    IN  { [cols |-> DOMAIN colvals, rows |-> r] :
            r \in UNION { [1..n -> Rows] : n \in 0..max } }

\* dict.get(key, default)
Get(c, key, default) == IF key \in DOMAIN c THEN c[key] ELSE default

\* repr of a list of names, as an f-string prints it: ['a', 'b']
RECURSIVE ReprItems(_)
ReprItems(names) ==
    IF names = <<>> THEN ""
    ELSE "'" \o Head(names) \o "'"
         \o (IF Len(names) > 1 THEN ", " ELSE "") \o ReprItems(Tail(names))

ListRepr(names) == "[" \o ReprItems(names) \o "]"

\* [c for c in names if c not in df.columns]
MissingCols(d, names) == SelectSeq(names, LAMBDA c : c \notin d.cols)

\* One row of an issues table
Issue(check, record_index, field, message, suggested_fix) ==
    [check |-> check, record_index |-> record_index, field |-> field,
     message |-> message, suggested_fix |-> suggested_fix]

\* A notes text: the f-string's template and the values it formats
Note(text, args) == [text |-> text, args |-> args]

NoCfg == [none |-> TRUE]

NoResult == [check |-> "none"]

NoTable == [cols |-> {}, rows |-> <<>>]

\* Nothing of the run beyond the one check has happened
RunNotStarted ==
    /\ df_std = NoTable
    /\ checks = NoResult
    /\ scorecard = <<>>
    /\ issues_combined = <<>>
    /\ fix_list = <<>>

\* ---------------------------------------------------------- completeness

DefaultCompletenessPass == 95

DefaultCompletenessWarn == 85

\* Mutant: the mask forgets the UNKNOWN token
IsMissingMask_NoUnknown(val) ==
    \/ isna(val)
    \/ strip(str(val)) = T_empty
    \/ strip(str(val)) = T_NA

\* is_missing of one cell (the vectorised mask of line 49)
IsMissingMask(val) ==
    \/ isna(val)
    \/ strip(str(val)) = T_empty
    \/ strip(str(val)) = T_NA
    \/ strip(str(val)) = T_UNKNOWN

\* Mutant: the loop tests the text only, so a null cell ("nan") passes
IsMissingLoop_TextOnly(val) == strip(str(val)) \in {T_empty, T_NA, T_UNKNOWN}

\* The test of the issue loop (lines 71-73)
IsMissingLoop(val) ==
    LET s == IF isna(val) THEN T_empty ELSE strip(str(val))
    IN  isna(val) \/ s \in {T_empty, T_NA, T_UNKNOWN}

\* int(is_present.values.sum())
PresentCells(d, required_fields) ==
    Cardinality({ <<i, j>> \in (1..NRows(d)) \X (1..Len(required_fields)) :
                    ~IsMissingMask(d.rows[i][required_fields[j]]) })

\* Mutant: PASS needs the rate strictly above the threshold
CompletenessStatus_Strict(rate, pass_thr, warn_thr) ==
    IF FGe(rate, pass_thr) /\ ~FEq(rate, pass_thr) THEN "PASS"
    ELSE IF FGe(rate, warn_thr) THEN "WARN"
    ELSE "FAIL"

CompletenessStatus(rate, pass_thr, warn_thr) ==
    IF FGe(rate, pass_thr) THEN "PASS"
    ELSE IF FGe(rate, warn_thr) THEN "WARN"
    ELSE "FAIL"

CompletenessIssue(idx, col) ==
    Issue("completeness", Some(idx), Some(col),
          "Missing required value for '" \o col \o "'",
          "Populate '" \o col \o "' or mark explicitly (NA/UNKNOWN) where appropriate.")

\* for col in required_fields: ... (lines 70-80), from position j on
RECURSIVE CompletenessFieldLoop(_, _, _, _)
CompletenessFieldLoop(row, idx, required_fields, j) ==
    IF j > Len(required_fields) THEN <<>>
    ELSE (IF IsMissingLoop(row[required_fields[j]])
          THEN <<CompletenessIssue(idx, required_fields[j])>>
          ELSE <<>>)
         \o CompletenessFieldLoop(row, idx, required_fields, j + 1)

\* for idx, row in required.iterrows(): ... (lines 69-80), from row i on
RECURSIVE CompletenessRowLoop(_, _, _)
CompletenessRowLoop(d, required_fields, i) ==
    IF i > NRows(d) THEN <<>>
    ELSE CompletenessFieldLoop(d.rows[i], IndexOf(i), required_fields, 1)
         \o CompletenessRowLoop(d, required_fields, i + 1)

Max(a, b) == IF a >= b THEN a ELSE b

run_completeness(d, c) ==
    LET required_fields == Get(c, "required_fields", <<>>)
        pass_thr == Pct(Get(c, "pass_threshold", DefaultCompletenessPass))
        warn_thr == Pct(Get(c, "warn_threshold", DefaultCompletenessWarn))
        missing_cols == MissingCols(d, required_fields)
    IN  IF missing_cols # <<>>
        THEN [check |-> "completeness",
              raised |-> FALSE,
              status |-> "FAIL",
              completeness_rate |-> Frac(0, 1),
              missing_cells |-> 0,
              total_required_cells |->
                  Max(Len(required_fields) * Max(NRows(d), 1), 1),
              notes |-> Note("Required columns missing: " \o ListRepr(missing_cols), <<>>),
              issues |-> << Issue("completeness", None, None,
                  "Missing required columns in dataset: " \o ListRepr(missing_cols),
                  "Update field mapping or provide these columns in the input.") >>]
        ELSE
        LET total_required_cells == NRows(d) * Len(required_fields)
            present_cells == PresentCells(d, required_fields)
            missing_cells == total_required_cells - present_cells
            completeness_rate ==
                IF total_required_cells # 0
                THEN Frac(present_cells, total_required_cells)
                ELSE Frac(0, 1)
        IN  [check |-> "completeness",
             raised |-> FALSE,
             status |-> CompletenessStatus(completeness_rate, pass_thr, warn_thr),
             completeness_rate |-> completeness_rate,
             missing_cells |-> missing_cells,
             total_required_cells |-> total_required_cells,
             notes |-> Note("{:.1%} required cells present ({} missing of {})",
                            <<completeness_rate, missing_cells, total_required_cells>>),
             issues |-> CompletenessRowLoop(d, required_fields, 1)]

\* Inputs of the completeness check
CompletenessCols == {"age", "sex"}

CompletenessVals ==
    { Null, StrCell(<<" ">>), StrCell(<<"N", "A", " ">>), StrCell(T_UNKNOWN), StrCell(T_NO) }

\* The tables of the 10-row example: one column age, exactly two rows
\* UNKNOWN, the other eight holding one present value
ExampleAgeTables ==
    { [cols |-> {"age"},
       rows |-> [i \in 1..10 |->
                   [f \in {"age"} |-> IF i \in u THEN StrCell(T_UNKNOWN) ELSE p]]] :
        u \in { s \in SUBSET (1..10) : Cardinality(s) = 2 },
        p \in { StrCell(<<"3", "4">>), StrCell(T_NO), IntCell(<<"7">>) } }

CompletenessRequired ==
    { <<>>, <<"age">>, <<"sex">>, <<"age", "sex">>, <<"sex", "age">>,
      <<"site">>, <<"age", "site">> }

CompletenessThresholds == { <<95, 85>>, <<50, 25>>, <<100, 100>>, <<50, 75>> }

CompletenessCfgs ==
    { [required_fields |-> rf] : rf \in CompletenessRequired }
    \cup
    { [required_fields |-> rf, pass_threshold |-> t[1], warn_threshold |-> t[2]] :
        rf \in CompletenessRequired, t \in CompletenessThresholds }

CompletenessInit ==
    /\ df \in Tables(CompletenessCols, CompletenessVals, MaxRows) \cup ExampleAgeTables
    /\ cfg = NoCfg
    /\ result = NoResult
    /\ RunNotStarted
    /\ pc = "loaded"

RunCompleteness ==
    /\ pc = "loaded"
    /\ \E c \in CompletenessCfgs :
         /\ cfg' = c
         /\ result' = run_completeness(df, c)
    /\ pc' = "done"
    /\ UNCHANGED <<df, runVars>>

CompletenessNext == RunCompleteness

SpecCompleteness == CompletenessInit /\ [][CompletenessNext]_vars

\* ------------------------------------------------- claims: completeness

\* The text of a cell with surrounding whitespace removed, stated without
\* recursion: the span from the first to the last non-blank character
TrimmedText(val) ==
    LET s == IF val.k = "null" THEN <<>> ELSE val.v
        ink == { i \in 1..Len(s) : s[i] \notin {" ", "\t"} }
    IN  IF ink = {} THEN <<>>
        ELSE SubSeq(s, CHOOSE i \in ink : \A j \in ink : i <= j,
                       CHOOSE i \in ink : \A j \in ink : i >= j)

\* A cell is missing iff it is null or its trimmed text is "", "NA" or "UNKNOWN"
CellIsMissing(val) ==
    \/ val.k = "null"
    \/ TrimmedText(val) = <<>>
    \/ TrimmedText(val) = <<"N", "A">>
    \/ TrimmedText(val) = <<"U", "N", "K", "N", "O", "W", "N">>

\* The (row position, field position) pairs of the rectangle rows x fields
Rectangle(d, fields) == (1..Len(d.rows)) \X (1..Len(fields))

MissingPairs(d, fields) ==
    { p \in Rectangle(d, fields) : CellIsMissing(d.rows[p[1]][fields[p[2]]]) }

CompletenessRan == pc = "done" /\ result.check = "completeness"

\* The completeness check ran on a table holding every required field
CompletenessEvaluated ==
    /\ CompletenessRan
    /\ \A j \in 1..Len(cfg.required_fields) : cfg.required_fields[j] \in df.cols

ThresholdOf(key, default) == IF key \in DOMAIN cfg THEN cfg[key] ELSE default

\* C1: when the table holds every required field, completeness_rate is
\* present_cells / total_required_cells over rows x required_fields (0 when
\* the rectangle is empty), a cell being missing iff it is null or its
\* trimmed text is "", "NA" or "UNKNOWN"; status is PASS iff rate >= pass,
\* WARN iff warn <= rate < pass, FAIL otherwise.
C1_CompletenessRateStatus ==
    CompletenessEvaluated =>
        LET rf == cfg.required_fields
            total == Cardinality(Rectangle(df, rf))
            present == total - Cardinality(MissingPairs(df, rf))
            rate == result.completeness_rate
            pass == ThresholdOf("pass_threshold", 95)
            warn == ThresholdOf("warn_threshold", 85)
            \* rate >= t / 100, with rate = present / total (0 if total = 0)
            AtLeast(t) == IF total = 0 THEN 0 >= t ELSE present * 100 >= t * total
        IN  /\ ~result.raised
            /\ rate.den > 0
            /\ IF total = 0 THEN rate.num = 0
               ELSE rate.num * total = present * rate.den
            /\ result.total_required_cells = total
            /\ (result.status = "PASS") = AtLeast(pass)
            /\ (result.status = "WARN") = (AtLeast(warn) /\ ~AtLeast(pass))
            /\ (result.status = "FAIL") = (~AtLeast(warn) /\ ~AtLeast(pass))

\* C1 witness: a WARN result on a table with a blank-padded NA cell counted
\* missing and a NO cell counted present
C1_Witness ==
    /\ CompletenessEvaluated
    /\ result.status = "WARN"
    /\ result.missing_cells > 0
    /\ result.missing_cells < result.total_required_cells
    /\ \E p \in Rectangle(df, cfg.required_fields) :
         df.rows[p[1]][cfg.required_fields[p[2]]] = StrCell(<<"N", "A", " ">>)
    /\ \E p \in Rectangle(df, cfg.required_fields) :
         df.rows[p[1]][cfg.required_fields[p[2]]] = StrCell(<<"N", "O">>)

\* The 10-row example ran at the default thresholds
ExampleAgeRan ==
    /\ CompletenessRan
    /\ df \in ExampleAgeTables
    /\ cfg.required_fields = <<"age">>
    /\ ThresholdOf("pass_threshold", 95) = 95
    /\ ThresholdOf("warn_threshold", 85) = 85

\* C2 as stated: 10 rows, required_fields = ["age"], 2 rows UNKNOWN, default
\* thresholds: completeness_rate = 0.8, status WARN, 2 issues.
C2_Original ==
    ExampleAgeRan =>
        /\ result.completeness_rate.num * 10 = 8 * result.completeness_rate.den
        /\ result.status = "WARN"
        /\ Len(result.issues) = 2

\* C2 amended: 10 rows, required_fields = ["age"], 2 rows UNKNOWN, default
\* thresholds: completeness_rate = 0.8, status FAIL (0.8 < 0.85), 2 issues.
C2_ExampleFails ==
    ExampleAgeRan =>
        /\ result.completeness_rate.den > 0
        /\ result.completeness_rate.num * 10 = 8 * result.completeness_rate.den
        /\ result.status = "FAIL"
        /\ Len(result.issues) = 2

C2_Witness ==
    /\ ExampleAgeRan
    /\ "pass_threshold" \notin DOMAIN cfg
    /\ result.missing_cells = 2
    /\ result.total_required_cells = 10

\* Position of a field name in a list of distinct names (0 if absent)
PositionIn(fields, f) ==
    IF \E j \in 1..Len(fields) : fields[j] = f
    THEN CHOOSE j \in 1..Len(fields) : fields[j] = f
    ELSE 0

\* C3: when the table holds every required field, there is exactly one issue
\* per (row, required field) pair whose cell is missing and none for a
\* present cell, so the number of issues equals missing_cells; the issues
\* are ordered by row, then by position in required_fields, and carry the
\* row's index as record_index and the field name as field.
C3_CompletenessIssues ==
    CompletenessEvaluated =>
        LET rf == cfg.required_fields
            iss == result.issues
            PairOf(k) == << iss[k].record_index[1] + 1,
                            PositionIn(rf, iss[k].field[1]) >>
        IN  /\ \A k \in 1..Len(iss) :
                 /\ iss[k].check = "completeness"
                 /\ Len(iss[k].record_index) = 1
                 /\ Len(iss[k].field) = 1
            /\ { PairOf(k) : k \in 1..Len(iss) } = MissingPairs(df, rf)
            /\ Len(iss) = Cardinality(MissingPairs(df, rf))
            /\ Len(iss) = result.missing_cells
            /\ \A k \in 1..Len(iss) : \A l \in 1..Len(iss) :
                 k < l =>
                   \/ PairOf(k)[1] < PairOf(l)[1]
                   \/ PairOf(k)[1] = PairOf(l)[1] /\ PairOf(k)[2] < PairOf(l)[2]

\* C3 witness: two rows and two required fields listed as (sex, age), with a
\* null cell and a present cell, and at least three issues
C3_Witness ==
    /\ CompletenessEvaluated
    /\ cfg.required_fields = <<"sex", "age">>
    /\ Len(df.rows) = 2
    /\ Len(result.issues) = 3
    /\ result.issues[1].field = <<"sex">>
    /\ result.issues[3].record_index = <<1>>
    /\ \E p \in Rectangle(df, cfg.required_fields) :
         df.rows[p[1]][cfg.required_fields[p[2]]] = Null

\* ------------------------------------------------------------ duplicates

DefaultDuplicatesPass == 0

DefaultDuplicatesWarn == 2

\* The values of a row on the key columns
KeyTuple(row, keys) == [k \in 1..Len(keys) |-> row[keys[k]]]

\* Mutant: keep="first", only the later occurrences are marked
DupMask_KeepFirst(d, keys, i) ==
    \E j \in 1..(i - 1) : KeyTuple(d.rows[j], keys) = KeyTuple(d.rows[i], keys)

\* df.duplicated(subset=keys, keep=False) at row i: the key tuple was seen
\* in an earlier row (a duplicate of a first) or is seen again in a later
\* one (a duplicate of a last); NaN keys hash equal to NaN
DupMask(d, keys, i) ==
    \/ \E j \in 1..(i - 1) : KeyTuple(d.rows[j], keys) = KeyTuple(d.rows[i], keys)
    \/ \E j \in (i + 1)..NRows(d) :
         KeyTuple(d.rows[j], keys) = KeyTuple(d.rows[i], keys)

\* int(dup_mask.sum())
DupRows(d, keys) == Cardinality({ i \in 1..NRows(d) : DupMask(d, keys, i) })

\* Mutant: the status compares the rate strictly
DuplicatesStatus_Strict(rate, pass_thr, warn_thr) ==
    IF FLe(rate, pass_thr) /\ ~FEq(rate, pass_thr) THEN "PASS"
    ELSE IF FLe(rate, warn_thr) /\ ~FEq(rate, warn_thr) THEN "WARN"
    ELSE "FAIL"

DuplicatesStatus(rate, pass_thr, warn_thr) ==
    IF FLe(rate, pass_thr) THEN "PASS"
    ELSE IF FLe(rate, warn_thr) THEN "WARN"
    ELSE "FAIL"

\* ",".join(keys)
RECURSIVE JoinComma(_)
JoinComma(names) ==
    IF names = <<>> THEN ""
    ELSE IF Len(names) = 1 THEN Head(names)
    ELSE Head(names) \o "," \o JoinComma(Tail(names))

\* df.loc[dup_mask, keys] with the issue columns set (lines 67-74), rows i..
RECURSIVE DuplicatesIssues(_, _, _)
DuplicatesIssues(d, keys, i) ==
    IF i > NRows(d) THEN <<>>
    ELSE (IF DupMask(d, keys, i)
          THEN << Issue("duplicates", Some(IndexOf(i)), Some(JoinComma(keys)),
                        "Duplicate record detected for key combination",
                        "De-duplicate upstream, or adjust keys if the duplication is expected.") >>
          ELSE <<>>)
         \o DuplicatesIssues(d, keys, i + 1)

run_duplicates(d, c) ==
    LET keys == Get(c, "keys", <<>>)
        pass_thr == Pct(Get(c, "pass_threshold", DefaultDuplicatesPass))
        warn_thr == Pct(Get(c, "warn_threshold", DefaultDuplicatesWarn))
        missing_cols == MissingCols(d, keys)
        total_rows == NRows(d)
    IN  IF missing_cols # <<>>
        THEN [check |-> "duplicates",
              raised |-> FALSE,
              status |-> "FAIL",
              duplicate_rows |-> 0,
              total_rows |-> NRows(d),
              duplicate_rate |-> Frac(0, 1),
              notes |-> Note("Key columns missing: " \o ListRepr(missing_cols), <<>>),
              issues |-> << Issue("duplicates", None, None,
                  "Missing key columns in dataset: " \o ListRepr(missing_cols),
                  "Update keys or add/match these columns in input/mapping.") >>]
        ELSE IF total_rows = 0
        THEN [check |-> "duplicates",
              raised |-> FALSE,
              status |-> "PASS",
              duplicate_rows |-> 0,
              total_rows |-> 0,
              duplicate_rate |-> Frac(0, 1),
              notes |-> Note("No rows to evaluate", <<>>),
              issues |-> <<>>]
        ELSE
        LET dup_rows == DupRows(d, keys)
            dup_rate == Frac(dup_rows, total_rows)
        IN  [check |-> "duplicates",
             raised |-> FALSE,
             status |-> DuplicatesStatus(dup_rate, pass_thr, warn_thr),
             duplicate_rows |-> dup_rows,
             total_rows |-> total_rows,
             duplicate_rate |-> dup_rate,
             notes |-> Note("{:.1%} duplicate rows on keys {} ({}/{})",
                            <<dup_rate, keys, dup_rows, total_rows>>),
             issues |-> DuplicatesIssues(d, keys, 1)]

\* Inputs of the duplicates check
DuplicatesCols == {"id", "site"}

DuplicatesVals == { Null, StrCell(<<"a">>), StrCell(<<"b">>) }

\* The example table: one column id holding 1, 1, 2, 3
ExampleIdTable ==
    [cols |-> {"id"},
     rows |-> << [f \in {"id"} |-> IntCell(<<"1">>)], [f \in {"id"} |-> IntCell(<<"1">>)],
                 [f \in {"id"} |-> IntCell(<<"2">>)], [f \in {"id"} |-> IntCell(<<"3">>)] >>]

\* Key lists: non-empty lists of distinct names, some naming an absent column
DuplicatesKeys ==
    { <<"id">>, <<"site">>, <<"id", "site">>, <<"site", "id">>,
      <<"visit">>, <<"id", "visit">> }

DuplicatesThresholds == { <<0, 2>>, <<0, 50>>, <<50, 100>>, <<100, 50>> }

DuplicatesCfgs ==
    { [keys |-> ks] : ks \in DuplicatesKeys }
    \cup
    { [keys |-> ks, pass_threshold |-> t[1], warn_threshold |-> t[2]] :
        ks \in DuplicatesKeys, t \in DuplicatesThresholds }

DuplicatesInit ==
    /\ df \in Tables(DuplicatesCols, DuplicatesVals, MaxDupRows) \cup {ExampleIdTable}
    /\ cfg = NoCfg
    /\ result = NoResult
    /\ RunNotStarted
    /\ pc = "loaded"

RunDuplicates ==
    /\ pc = "loaded"
    /\ \E c \in DuplicatesCfgs :
         /\ cfg' = c
         /\ result' = run_duplicates(df, c)
    /\ pc' = "done"
    /\ UNCHANGED <<df, runVars>>

DuplicatesNext == RunDuplicates

SpecDuplicates == DuplicatesInit /\ [][DuplicatesNext]_vars

\* --------------------------------------------------- claims: duplicates

\* The duplicates check ran on a non-empty table holding every key column
DuplicatesEvaluated ==
    /\ pc = "done"
    /\ result.check = "duplicates"
    /\ \A k \in 1..Len(cfg.keys) : cfg.keys[k] \in df.cols
    /\ Len(df.rows) > 0

\* Rows i and j agree on every key column
SameKeys(i, j) == \A k \in 1..Len(cfg.keys) : df.rows[i][cfg.keys[k]] = df.rows[j][cfg.keys[k]]

\* The rows with at least one other row of the same key tuple
FlaggedRows ==
    { i \in 1..Len(df.rows) : \E j \in 1..Len(df.rows) : j # i /\ SameKeys(i, j) }

\* C4: on a non-empty table holding every key column, a row is flagged iff
\* another row has the same key tuple (first occurrences included);
\* duplicate_rows counts the flagged rows and there is exactly one issue per
\* flagged row, with the row's index as record_index and the comma-joined
\* key names as field; ids [1,1,2,3] give duplicate_rows = 2, rate 0.5 and
\* the two issues of rows 0 and 1.
C4_DuplicatesFlagged ==
    DuplicatesEvaluated =>
        LET iss == result.issues
            joined == IF Len(cfg.keys) = 1 THEN cfg.keys[1]
                      ELSE cfg.keys[1] \o "," \o cfg.keys[2]
        IN  /\ ~result.raised
            /\ result.duplicate_rows = Cardinality(FlaggedRows)
            /\ Len(iss) = Cardinality(FlaggedRows)
            /\ { iss[k].record_index : k \in 1..Len(iss) }
                   = { <<i - 1>> : i \in FlaggedRows }
            /\ \A k \in 1..Len(iss) :
                 iss[k].check = "duplicates" /\ iss[k].field = <<joined>>
            /\ (df = ExampleIdTable /\ cfg.keys = <<"id">>) =>
                 /\ result.duplicate_rows = 2
                 /\ result.duplicate_rate.num * 2 = result.duplicate_rate.den
                 /\ Len(iss) = 2
                 /\ { iss[k].record_index : k \in 1..Len(iss) } = { <<0>>, <<1>> }

\* C4 witness: three rows on two keys where the first and the last row share
\* a key tuple and the middle one does not
C4_Witness ==
    /\ DuplicatesEvaluated
    /\ cfg.keys = <<"id", "site">>
    /\ Len(df.rows) = 3
    /\ FlaggedRows = {1, 3}
    /\ Len(result.issues) = 2
    /\ result.issues[1].record_index = <<0>>
    /\ result.issues[1].field = <<"id,site">>

\* C4 witness of the example: ids [1,1,2,3] on key id
C4_ExampleWitness ==
    /\ DuplicatesEvaluated
    /\ df = ExampleIdTable
    /\ cfg.keys = <<"id">>
    /\ result.duplicate_rows = 2

\* C5: on a non-empty table holding every key column, duplicate_rate is
\* duplicate_rows / total_rows, within [0,1]; status is PASS iff rate <= pass,
\* WARN iff pass < rate <= warn, FAIL otherwise; with all key tuples distinct
\* duplicate_rows = 0 and the status is PASS at the default thresholds.
C5_DuplicatesRateStatus ==
    DuplicatesEvaluated =>
        LET rate == result.duplicate_rate
            total == Len(df.rows)
            dups == Cardinality(FlaggedRows)
            pass == ThresholdOf("pass_threshold", 0)
            warn == ThresholdOf("warn_threshold", 2)
            \* rate <= t / 100, with rate = dups / total
            AtMost(t) == dups * 100 <= t * total
        IN  /\ rate.den > 0
            /\ rate.num * total = dups * rate.den
            /\ result.total_rows = total
            /\ 0 <= rate.num /\ rate.num <= rate.den
            /\ (result.status = "PASS") = AtMost(pass)
            /\ (result.status = "WARN") = (~AtMost(pass) /\ AtMost(warn))
            /\ (result.status = "FAIL") = (~AtMost(pass) /\ ~AtMost(warn))
            /\ (FlaggedRows = {} /\ pass = 0 /\ warn = 2) =>
                 result.duplicate_rows = 0 /\ result.status = "PASS"

\* C5 witness: a WARN result (rate on the warn threshold) ...
C5_Witness ==
    /\ DuplicatesEvaluated
    /\ result.status = "WARN"
    /\ result.duplicate_rows = 2
    /\ Len(df.rows) = 2

\* ... and distinct key tuples at the default thresholds
C5_DistinctWitness ==
    /\ DuplicatesEvaluated
    /\ "pass_threshold" \notin DOMAIN cfg
    /\ Len(df.rows) = 3
    /\ FlaggedRows = {}
    /\ result.status = "PASS"

\* ----------------------------------------------------------- consistency

\* The characters of a text as one string, for f-string messages
RECURSIVE Text(_)
Text(s) == IF s = <<>> THEN "" ELSE Head(s) \o Text(Tail(s))

\* _is_missing(val)
_is_missing(val) ==
    IF isna(val) THEN TRUE
    ELSE LET s == strip(str(val))
         IN  s = T_empty \/ s \in {T_NA, T_UNKNOWN}

\* rule.get("name", "UnnamedRule")
RuleName(rule) == Get(rule, "name", "UnnamedRule")

\* when.get("field"): None when the rule has no when or no field
WhenField(rule) ==
    LET when == Get(rule, "when", [none |-> TRUE])
    IN  IF "field" \in DOMAIN when THEN Some(when.field) ELSE None

\* when.get("equals") as str() prints it
WhenEqualsText(rule) ==
    LET when == Get(rule, "when", [none |-> TRUE])
    IN  IF "equals" \in DOMAIN when THEN str(when.equals)
        ELSE <<"N", "o", "n", "e">>

\* not when_field or when_field not in df.columns
WhenFieldUnusable(d, rule) ==
    \/ WhenField(rule) = None
    \/ WhenField(rule)[1] = ""
    \/ WhenField(rule)[1] \notin d.cols

\* Mutant: the mask ignores the when condition (every row is in scope)
Mask_AllRows(d, rule, i) == TRUE

\* mask = df[when_field].astype(str).str.strip().eq(str(when_equals).strip())
Mask(d, rule, i) ==
    strip(str(d.rows[i][WhenField(rule)[1]])) = strip(WhenEqualsText(rule))

ConfigIssue(message) ==
    Issue("consistency", None, None, message,
          "Fix field mapping or adjust rule configuration.")

\* for idx in df.index[mask]: ... _is_missing (lines 76-86), rows i..
RECURSIVE RequiredRows(_, _, _, _)
RequiredRows(d, rule, req_field, i) ==
    IF i > NRows(d) THEN <<>>
    ELSE (IF Mask(d, rule, i) /\ _is_missing(d.rows[i][req_field])
          THEN << Issue("consistency", Some(IndexOf(i)), Some(req_field),
                    "Rule '" \o RuleName(rule) \o "': '" \o WhenField(rule)[1]
                      \o "' is '" \o Text(WhenEqualsText(rule)) \o "' so '"
                      \o req_field \o "' is required",
                    "Populate '" \o req_field \o "' for this record, or correct '"
                      \o WhenField(rule)[1] \o "' if misclassified.") >>
          ELSE <<>>)
         \o RequiredRows(d, rule, req_field, i + 1)

\* for req_field in then_required: ... (lines 63-86), fields j..
RECURSIVE ThenRequired(_, _, _, _)
ThenRequired(d, rule, then_required, j) ==
    IF j > Len(then_required) THEN <<>>
    ELSE (IF then_required[j] \notin d.cols
          THEN << ConfigIssue("Rule '" \o RuleName(rule)
                    \o "' failed: required field '" \o then_required[j]
                    \o "' not in dataset") >>
          ELSE RequiredRows(d, rule, then_required[j], 1))
         \o ThenRequired(d, rule, then_required, j + 1)

\* for idx in df.index[mask]: ... actual != exp (lines 102-113), rows i..
RECURSIVE EqualsRows(_, _, _, _, _)
EqualsRows(d, rule, field, expected, i) ==
    IF i > NRows(d) THEN <<>>
    ELSE (LET actual == IF isna(d.rows[i][field]) THEN T_empty
                        ELSE strip(str(d.rows[i][field]))
              exp == strip(str(expected))
          IN  IF Mask(d, rule, i) /\ actual # exp
              THEN << Issue("consistency", Some(IndexOf(i)), Some(field),
                        "Rule '" \o RuleName(rule) \o "': expected '" \o field
                          \o "' == '" \o Text(exp) \o "' when '" \o WhenField(rule)[1]
                          \o "' == '" \o Text(WhenEqualsText(rule)) \o "' (got '"
                          \o Text(actual) \o "')",
                        "Set '" \o field \o "' to '" \o Text(exp) \o "' or correct '"
                          \o WhenField(rule)[1] \o "'.") >>
              ELSE <<>>)
         \o EqualsRows(d, rule, field, expected, i + 1)

\* for field, expected in then_equals.items(): ... (lines 90-113), items j..
RECURSIVE ThenEquals(_, _, _, _)
ThenEquals(d, rule, then_equals, j) ==
    IF j > Len(then_equals) THEN <<>>
    ELSE (IF then_equals[j][1] \notin d.cols
          THEN << ConfigIssue("Rule '" \o RuleName(rule) \o "' failed: field '"
                    \o then_equals[j][1] \o "' not in dataset") >>
          ELSE EqualsRows(d, rule, then_equals[j][1], then_equals[j][2], 1))
         \o ThenEquals(d, rule, then_equals, j + 1)

\* The body of "for rule in rules" for one rule (lines 42-113)
RuleIssues(d, rule) ==
    IF WhenFieldUnusable(d, rule)
    THEN << ConfigIssue("Rule '" \o RuleName(rule)
              \o "' skipped: missing when.field '"
              \o (IF WhenField(rule) = None THEN "None" ELSE WhenField(rule)[1])
              \o "' in dataset") >>
    ELSE ThenRequired(d, rule, Get(rule, "then_required", <<>>), 1)
         \o ThenEquals(d, rule, Get(rule, "then_equals", <<>>), 1)

\* for rule in rules: ... , rules r..
RECURSIVE RulesLoop(_, _, _)
RulesLoop(d, rules, r) ==
    IF r > Len(rules) THEN <<>>
    ELSE RuleIssues(d, rules[r]) \o RulesLoop(d, rules, r + 1)

\* failed_rule_names: a name is added with every issue appended
FailedRuleNames(d, rules) ==
    { RuleName(rules[r]) : r \in { q \in 1..Len(rules) : RuleIssues(d, rules[q]) # <<>> } }

\* Mutant: a record_index counts when it is truthy, so index 0 does not
notna_Truthy(record_index) == record_index # None /\ record_index[1] # 0

\* Series.notna() on record_index
notna(record_index) == record_index # None

\* issues["record_index"].notna().sum() if not issues.empty else 0
RecordIssueCount(issues) ==
    IF issues = <<>> THEN 0
    ELSE Cardinality({ k \in 1..Len(issues) : notna(issues[k].record_index) })

\* issues["record_index"].isna().sum() if not issues.empty else 0
ConfigIssueCount(issues) ==
    IF issues = <<>> THEN 0
    ELSE Cardinality({ k \in 1..Len(issues) : ~notna(issues[k].record_index) })

ConsistencyStatus(issues) ==
    IF RecordIssueCount(issues) > 0 THEN "FAIL"
    ELSE IF ConfigIssueCount(issues) > 0 THEN "WARN"
    ELSE "PASS"

run_consistency(d, c) ==
    LET rules == Get(c, "rules", <<>>)
    IN  IF rules = <<>>
        THEN [check |-> "consistency",
              raised |-> FALSE,
              status |-> "PASS",
              failed_rules |-> 0,
              issues_count |-> 0,
              notes |-> Note("No rules configured", <<>>),
              issues |-> <<>>]
        ELSE
        LET issues == RulesLoop(d, rules, 1)
            failed_rule_names == FailedRuleNames(d, rules)
        IN  [check |-> "consistency",
             raised |-> FALSE,
             status |-> ConsistencyStatus(issues),
             failed_rules |-> Cardinality(failed_rule_names),
             issues_count |-> Len(issues),
             notes |-> Note("{} rule(s) triggered; {} issue(s)",
                            <<Cardinality(failed_rule_names), Len(issues)>>),
             issues |-> issues]

\* Inputs of the consistency check
ConsistencyCols == {"status", "approver_id"}

T_y == <<"y">>

\* status cells (null, matching, matching after strip) and approver_id cells
\* (null, present, a missing token)
ConsistencyVals ==
    [c \in ConsistencyCols |->
        IF c = "status" THEN { Null, StrCell(T_y), StrCell(<<" ", "y">>) }
        ELSE { Null, StrCell(T_y), StrCell(T_NA) }]

WhenStatus(text) == [field |-> "status", equals |-> StrCell(text)]

\* Rules: matching with and without padding, naming absent columns in the
\* when and in the then clauses, never matching, and lacking clauses
ConsistencyRules ==
    { [name |-> "A", when |-> WhenStatus(<<"y", " ">>),
       then_required |-> <<"approver_id">>],
      [name |-> "B", when |-> WhenStatus(T_y),
       then_equals |-> << <<"approver_id", StrCell(<<"y", " ">>)>> >>],
      [name |-> "C", when |-> [field |-> "ghost", equals |-> StrCell(T_y)],
       then_required |-> <<"approver_id">>],
      [name |-> "D", when |-> WhenStatus(T_y),
       then_required |-> <<"ghost", "approver_id">>],
      [name |-> "E", when |-> WhenStatus(<<"n", "a", "n">>),
       then_required |-> <<"approver_id">>],
      [name |-> "F", when |-> WhenStatus(<<"z">>),
       then_required |-> <<"approver_id", "ghost">>,
       then_equals |-> << <<"approver_id", StrCell(T_y)>> >>],
      [name |-> "G", when |-> WhenStatus(<<"z">>),
       then_equals |-> << <<"ghost", StrCell(T_y)>> >>],
      [name |-> "H", when |-> WhenStatus(<<"z">>),
       then_required |-> <<"approver_id">>],
      [then_required |-> <<"approver_id">>] }

ConsistencyCfgs ==
    { [rules |-> rs] :
        rs \in UNION { [1..n -> ConsistencyRules] : n \in 0..MaxRules } }
    \cup { [none |-> TRUE] }

ConsistencyInit ==
    /\ df \in TablesBy(ConsistencyVals, MaxConsRows)
    /\ cfg = NoCfg
    /\ result = NoResult
    /\ RunNotStarted
    /\ pc = "loaded"

RunConsistency ==
    /\ pc = "loaded"
    /\ \E c \in ConsistencyCfgs :
         /\ cfg' = c
         /\ result' = run_consistency(df, c)
    /\ pc' = "done"
    /\ UNCHANGED <<df, runVars>>

ConsistencyNext == RunConsistency

SpecConsistency == ConsistencyInit /\ [][ConsistencyNext]_vars

\* -------------------------------------------------- claims: consistency

\* The consistency check ran with at least one rule
ConsistencyRanRules ==
    /\ pc = "done"
    /\ result.check = "consistency"
    /\ "rules" \in DOMAIN cfg
    /\ cfg.rules # <<>>

RecordLevel(iss) == { k \in 1..Len(iss) : Len(iss[k].record_index) = 1 }

ConfigLevel(iss) == { k \in 1..Len(iss) : Len(iss[k].record_index) = 0 }

\* C6: with at least one rule, the status is FAIL iff some emitted issue is
\* record-level (record_index not null), otherwise WARN iff some emitted
\* issue is config-level, otherwise PASS; also when a record index is 0.
C6_ConsistencyStatus ==
    ConsistencyRanRules =>
        /\ ~result.raised
        /\ (result.status = "FAIL") = (RecordLevel(result.issues) # {})
        /\ (result.status = "WARN") =
               (RecordLevel(result.issues) = {} /\ ConfigLevel(result.issues) # {})
        /\ (result.status = "PASS") = (result.issues = <<>>)

\* C6 witness: FAIL where the only record-level issue is on the row of
\* index 0, next to a config-level issue
C6_Witness ==
    /\ ConsistencyRanRules
    /\ result.status = "FAIL"
    /\ ConfigLevel(result.issues) # {}
    /\ RecordLevel(result.issues) # {}
    /\ \A k \in RecordLevel(result.issues) : result.issues[k].record_index = <<0>>

\* The text of a value as the check compares it: printed (a null cell prints
\* as nan) and trimmed
ComparedText(val) ==
    TrimmedText(IF val.k = "null" THEN StrCell(<<"n", "a", "n">>) ELSE val)

\* Row i satisfies the rule's when condition
WhenHolds(rule, i) ==
    /\ "when" \in DOMAIN rule
    /\ rule.when.field \in df.cols
    /\ ComparedText(df.rows[i][rule.when.field]) = ComparedText(rule.when.equals)

NoRowInScope ==
    \A r \in 1..Len(cfg.rules) : \A i \in 1..Len(df.rows) : ~WhenHolds(cfg.rules[r], i)

\* The fields a rule's then clauses name
ThenFields(rule) ==
    (IF "then_required" \in DOMAIN rule
     THEN { rule.then_required[j] : j \in 1..Len(rule.then_required) } ELSE {})
    \cup
    (IF "then_equals" \in DOMAIN rule
     THEN { rule.then_equals[j][1] : j \in 1..Len(rule.then_equals) } ELSE {})

\* The rule names only columns of the table: its when.field is a column and
\* so is every field of its then clauses
RuleWellConfigured(rule) ==
    /\ "when" \in DOMAIN rule
    /\ rule.when.field \in df.cols
    /\ ThenFields(rule) \subseteq df.cols

\* The rule has a config-level defect the check reports: no usable
\* when.field, or (the when.field being a column) a then field that is not
RuleMisconfigured(rule) ==
    \/ "when" \notin DOMAIN rule
    \/ rule.when.field \notin df.cols
    \/ ~(ThenFields(rule) \subseteq df.cols)

\* C7 as stated: if no row satisfies any rule's when condition, the status
\* is PASS with zero record-level issues, whatever the then clauses name.
C7_Original ==
    (ConsistencyRanRules /\ NoRowInScope) =>
        /\ result.status = "PASS"
        /\ RecordLevel(result.issues) = {}

\* C7 amended: if no row satisfies any rule's when condition, there are zero
\* record-level issues and the status is PASS when every rule names only
\* columns of the table, WARN (with a config-level issue) otherwise.
C7_NoScopeNoRecordIssues ==
    (ConsistencyRanRules /\ NoRowInScope) =>
        /\ RecordLevel(result.issues) = {}
        /\ result.status \in {"PASS", "WARN"}
        /\ (result.status = "PASS") =
               (\A r \in 1..Len(cfg.rules) : RuleWellConfigured(cfg.rules[r]))
        /\ (result.status = "WARN") =>
               /\ ConfigLevel(result.issues) # {}
               /\ \E r \in 1..Len(cfg.rules) : RuleMisconfigured(cfg.rules[r])

\* C7 witness: rows exist, none in scope, every when.field is a column, yet a
\* then clause names an absent column and the status is WARN
C7_Witness ==
    /\ ConsistencyRanRules
    /\ NoRowInScope
    /\ Len(df.rows) > 0
    /\ \A r \in 1..Len(cfg.rules) :
         "when" \in DOMAIN cfg.rules[r] /\ cfg.rules[r].when.field \in df.cols
    /\ result.status = "WARN"

\* C7 witness of the PASS case: rules with then clauses, rows, none in scope
C7_PassWitness ==
    /\ ConsistencyRanRules
    /\ NoRowInScope
    /\ Len(df.rows) > 0
    /\ \E i \in 1..Len(df.rows) : df.rows[i]["approver_id"] = Null
    /\ result.status = "PASS"

\* ----------------------------------------------------------------- drift

DefaultBaselinePeriods == 2

DefaultWarnPctChange == 30

DefaultFailPctChange == 50

DigitValue ==
    [c \in {"0", "1", "2", "3", "4", "5", "6", "7", "8", "9"} |->
        CASE c = "0" -> 0 [] c = "1" -> 1 [] c = "2" -> 2 [] c = "3" -> 3
          [] c = "4" -> 4 [] c = "5" -> 5 [] c = "6" -> 6 [] c = "7" -> 7
          [] c = "8" -> 8 [] c = "9" -> 9]

IsLeap(y) == (y % 4 = 0 /\ y % 100 # 0) \/ y % 400 = 0

DaysInMonth(y, m) ==
    IF m = 2 THEN (IF IsLeap(y) THEN 29 ELSE 28)
    ELSE IF m \in {4, 6, 9, 11} THEN 30 ELSE 31

NaT == [valid |-> FALSE, y |-> 0, m |-> 0, d |-> 0]

\* pd.to_datetime(value, errors="coerce") on one cell holding an ISO date
\* text YYYY-MM-DD; anything else, and a null cell, is NaT
to_datetime(val) ==
    IF isna(val) THEN NaT
    ELSE
    LET s == str(val)
        digits == {1, 2, 3, 4, 6, 7, 9, 10}
    IN  IF ~(/\ Len(s) = 10
             /\ s[5] = "-" /\ s[8] = "-"
             /\ \A i \in digits : s[i] \in DOMAIN DigitValue)
        THEN NaT
        ELSE
        LET y == DigitValue[s[1]] * 1000 + DigitValue[s[2]] * 100
                   + DigitValue[s[3]] * 10 + DigitValue[s[4]]
            m == DigitValue[s[6]] * 10 + DigitValue[s[7]]
            d == DigitValue[s[9]] * 10 + DigitValue[s[10]]
        IN  IF y >= 1 /\ m \in 1..12 /\ d >= 1 /\ d <= DaysInMonth(y, m)
            THEN [valid |-> TRUE, y |-> y, m |-> m, d |-> d]
            ELSE NaT

\* Days since 1970-01-01 of a civil date
DaysFromCivil(y, m, d) ==
    LET yy == IF m <= 2 THEN y - 1 ELSE y
        era == yy \div 400
        yoe == yy - era * 400
        mp == (m + 9) % 12
        doy == (153 * mp + 2) \div 5 + d - 1
        doe == yoe * 365 + yoe \div 4 - yoe \div 100 + doy
    IN  era * 146097 + doe - 719468

\* dt.to_period("M" if period == "monthly" else "W"): the period's ordinal,
\* months since 1970-01 or Monday-to-Sunday weeks (1970-01-01 is a Thursday)
to_period(date, period) ==
    IF period = "monthly" THEN (date.y - 1970) * 12 + (date.m - 1)
    ELSE (DaysFromCivil(date.y, date.m, date.d) + 3) \div 7

\* valid = dates.notna(): the positions of the rows of df2
ValidRows(d, date_field) ==
    { i \in 1..NRows(d) : to_datetime(d.rows[i][date_field]).valid }

RowPeriod(d, date_field, period, i) ==
    to_period(to_datetime(d.rows[i][date_field]), period)

\* The index of counts: the periods that hold a row
PeriodSet(d, date_field, period) ==
    { RowPeriod(d, date_field, period, i) : i \in ValidRows(d, date_field) }

\* sort_index(): the periods ascending
RECURSIVE SortAscending(_)
SortAscending(S) ==
    IF S = {} THEN <<>>
    ELSE LET lo == CHOOSE x \in S : \A z \in S : x <= z
         IN  <<lo>> \o SortAscending(S \ {lo})

\* Mutant: one entry for every calendar period from the first observed to
\* the last, empty periods counted as 0
PeriodCounts_Calendar(d, date_field, period) ==
    LET seen == PeriodSet(d, date_field, period)
        idx == IF seen = {} THEN <<>>
               ELSE SortAscending((CHOOSE x \in seen : \A z \in seen : x <= z)
                                  ..(CHOOSE x \in seen : \A z \in seen : z <= x))
    IN  [k \in 1..Len(idx) |->
            [period |-> idx[k],
             size |-> Cardinality({ i \in ValidRows(d, date_field) :
                          RowPeriod(d, date_field, period, i) = idx[k] })]]

\* counts = df2.groupby("_period").size().sort_index()
PeriodCounts(d, date_field, period) ==
    LET idx == SortAscending(PeriodSet(d, date_field, period))
    IN  [k \in 1..Len(idx) |->
            [period |-> idx[k],
             size |-> Cardinality({ i \in ValidRows(d, date_field) :
                          RowPeriod(d, date_field, period, i) = idx[k] })]]

RECURSIVE SumSizes(_)
SumSizes(counts) ==
    IF counts = <<>> THEN 0 ELSE Head(counts).size + SumSizes(Tail(counts))

\* Series.mean(): NaN on an empty series
Mean(counts) ==
    IF counts = <<>> THEN NaN ELSE Frac(SumSizes(counts), Len(counts))

\* Mutant: the baseline slice runs to the end, latest period included
Baseline_WithLatest(counts, baseline_n) ==
    SubSeq(counts, Max(Len(counts) - baseline_n + 1, 1), Len(counts))

\* baseline = counts.iloc[-(baseline_n + 1):-1]
Baseline(counts, baseline_n) ==
    SubSeq(counts, Max(Len(counts) - baseline_n, 1), Len(counts) - 1)

DriftStatus(pct_change, warn_thr, fail_thr) ==
    LET abs_change == FAbs(pct_change)
    IN  IF FGe(abs_change, fail_thr) THEN "FAIL"
        ELSE IF FGe(abs_change, warn_thr) THEN "WARN"
        ELSE "PASS"

\* An exception leaving the check
Raised(check, error) == [check |-> check, raised |-> TRUE, error |-> error]

run_drift(d, c) ==
    LET date_field == Get(c, "date_field", "")
        period == Get(c, "period", "monthly")
        baseline_n == Get(c, "baseline_periods", DefaultBaselinePeriods)
        warn_thr == Pct(Get(c, "warn_pct_change", DefaultWarnPctChange))
        fail_thr == Pct(Get(c, "fail_pct_change", DefaultFailPctChange))
    IN  IF date_field = "" \/ date_field \notin d.cols
        THEN [check |-> "drift",
              raised |-> FALSE,
              status |-> "WARN",
              latest_period |-> None,
              baseline_avg |-> Frac(0, 1),
              latest_count |-> 0,
              pct_change |-> Frac(0, 1),
              notes |-> Note("Date field '"
                               \o (IF date_field = "" THEN "None" ELSE date_field)
                               \o "' missing; drift skipped", <<>>),
              issues |-> <<>>]
        ELSE
        LET counts == PeriodCounts(d, date_field, period)
        IN  IF Len(counts) <= baseline_n
            THEN IF counts = <<>>
                 \* int(counts.iloc[-1]) on an empty series
                 THEN Raised("drift", "IndexError")
                 ELSE [check |-> "drift",
                       raised |-> FALSE,
                       status |-> "PASS",
                       latest_period |-> Some(counts[Len(counts)].period),
                       baseline_avg |-> Mean(counts),
                       latest_count |-> counts[Len(counts)].size,
                       pct_change |-> Frac(0, 1),
                       notes |-> Note("Not enough historical periods to evaluate drift", <<>>),
                       issues |-> <<>>]
            ELSE
            LET latest_period == counts[Len(counts)].period
                latest_count == counts[Len(counts)].size
                baseline_avg == Mean(Baseline(counts, baseline_n))
                pct_change ==
                    IF FEq(baseline_avg, Frac(0, 1)) THEN Frac(1, 1)
                    ELSE FDiv(FSub(Frac(latest_count, 1), baseline_avg), baseline_avg)
                status == DriftStatus(pct_change, warn_thr, fail_thr)
            IN  [check |-> "drift",
                 raised |-> FALSE,
                 status |-> status,
                 latest_period |-> Some(latest_period),
                 baseline_avg |-> baseline_avg,
                 latest_count |-> latest_count,
                 pct_change |-> pct_change,
                 notes |-> Note("{}: {} records vs baseline avg {:.1f} ({:.1%})",
                                <<latest_period, latest_count, baseline_avg, pct_change>>),
                 issues |->
                     IF status # "PASS"
                     THEN << Issue("drift", None, Some(date_field),
                               "Volume drift detected for " \o ToString(latest_period)
                                 \o ": " \o FText(pct_change)
                                 \o " change vs baseline avg (" \o FText(baseline_avg) \o ")",
                               "Verify reporting completeness, backlogs, or duplicate submissions for this period.") >>
                     ELSE <<>>]

\* Inputs of the drift check
DateText(y1, y2, y3, y4, m1, m2, d1, d2) ==
    StrCell(<<y1, y2, y3, y4, "-", m1, m2, "-", d1, d2>>)

D_Jan15 == DateText("2", "0", "2", "4", "0", "1", "1", "5")
D_Jan29 == DateText("2", "0", "2", "4", "0", "1", "2", "9")
D_Feb01 == DateText("2", "0", "2", "4", "0", "2", "0", "1")
D_Mar10 == DateText("2", "0", "2", "4", "0", "3", "1", "0")

\* A null, a text that is no date, and dates of three months; Jan 29 and
\* Feb 1 of 2024 fall in one week, Jan 15 in an earlier one
DriftVals ==
    { Null, StrCell(<<"n", "/", "a">>), D_Jan15, D_Jan29, D_Feb01, D_Mar10 }

\* The example: monthly counts 100, 100, 10
ExampleDriftTable ==
    [cols |-> {"date"},
     rows |-> [i \in 1..210 |->
                 [f \in {"date"} |->
                    IF i <= 100 THEN D_Jan15
                    ELSE IF i <= 200 THEN D_Feb01 ELSE D_Mar10]]]

\* baseline_periods is at least 1 (the configuration form's minimum)
BaselineChoices == 1..MaxBaseline

DriftThresholds == { <<30, 50>>, <<25, 100>>, <<0, 0>> }

DriftCfgs ==
    { [date_field |-> "date"], [none |-> TRUE], [date_field |-> "visit_date"],
      [date_field |-> "date", period |-> "weekly"] }
    \cup
    { [date_field |-> "date", period |-> p, baseline_periods |-> b,
       warn_pct_change |-> t[1], fail_pct_change |-> t[2]] :
        p \in {"monthly", "weekly"}, b \in BaselineChoices, t \in DriftThresholds }

DriftInit ==
    /\ df \in Tables({"date"}, DriftVals, MaxDriftRows) \cup {ExampleDriftTable}
    /\ cfg = NoCfg
    /\ result = NoResult
    /\ RunNotStarted
    /\ pc = "loaded"

RunDrift ==
    /\ pc = "loaded"
    /\ \E c \in DriftCfgs :
         /\ cfg' = c
         /\ result' = run_drift(df, c)
    /\ pc' = "done"
    /\ UNCHANGED <<df, runVars>>

DriftNext == RunDrift

SpecDrift == DriftInit /\ [][DriftNext]_vars

\* -------------------------------------------------------- claims: drift

DriftRan == pc = "done" /\ result.check = "drift"

\* The date field is configured and is a column of the table
DateFieldPresent == "date_field" \in DOMAIN cfg /\ cfg.date_field \in df.cols

CfgPeriod == IF "period" \in DOMAIN cfg THEN cfg.period ELSE "monthly"

CfgBaseline == ThresholdOf("baseline_periods", 2)

\* The period of the row at position i, when its date parses
PeriodAt(i) == to_period(to_datetime(df.rows[i][cfg.date_field]), CfgPeriod)

Parseable == { i \in 1..Len(df.rows) : to_datetime(df.rows[i][cfg.date_field]).valid }

DistinctPeriods == { PeriodAt(i) : i \in Parseable }

RowsIn(P) == Cardinality({ i \in Parseable : PeriodAt(i) \in P })

LatestPeriod == CHOOSE p \in DistinctPeriods : \A q \in DistinctPeriods : q <= p

\* The baseline_periods periods immediately preceding the latest
BaselinePeriodSet ==
    { p \in DistinctPeriods :
        /\ p < LatestPeriod
        /\ Cardinality({ q \in DistinctPeriods : p < q /\ q < LatestPeriod }) < CfgBaseline }

\* The drift check evaluated: more distinct periods than baseline_periods
DriftEvaluated ==
    /\ DriftRan
    /\ DateFieldPresent
    /\ Cardinality(DistinctPeriods) > CfgBaseline

\* C8: with the date field present and more distinct periods than
\* baseline_periods, latest_count is the row count of the most recent
\* period, baseline_avg the mean count of the baseline_periods periods just
\* before it, pct_change = (latest_count - baseline_avg) / baseline_avg, and
\* status is FAIL iff |pct_change| >= fail, else WARN iff >= warn, else
\* PASS; monthly counts [100,100,10] with baseline_periods 2 give
\* baseline_avg 100, pct_change -0.9 and FAIL.
C8_DriftEvaluation ==
    DriftEvaluated =>
        LET n == CfgBaseline
            latest == RowsIn({LatestPeriod})
            bsum == RowsIn(BaselinePeriodSet)
            avg == result.baseline_avg
            pct == result.pct_change
            warn == ThresholdOf("warn_pct_change", 30)
            fail == ThresholdOf("fail_pct_change", 50)
            \* |latest - bsum/n| / (bsum/n) >= t / 100
            delta == IF latest * n >= bsum THEN latest * n - bsum ELSE bsum - latest * n
            AtLeast(t) == delta * 100 >= t * bsum
        IN  /\ ~result.raised
            /\ Cardinality(BaselinePeriodSet) = n
            /\ result.latest_count = latest
            /\ avg.den > 0 /\ avg.num * n = bsum * avg.den
            /\ bsum > 0
            /\ pct.den > 0 /\ pct.num * bsum = (latest * n - bsum) * pct.den
            /\ (result.status = "FAIL") = AtLeast(fail)
            /\ (result.status = "WARN") = (~AtLeast(fail) /\ AtLeast(warn))
            /\ (result.status = "PASS") = (~AtLeast(fail) /\ ~AtLeast(warn))
            /\ (df = ExampleDriftTable /\ CfgPeriod = "monthly" /\ n = 2
                  /\ warn = 30 /\ fail = 50) =>
                 /\ avg.num = 100 * avg.den
                 /\ result.latest_count = 10
                 /\ pct.num * 10 = -9 * pct.den
                 /\ result.status = "FAIL"

\* C8 witness: the example evaluated at the defaults
C8_Witness ==
    /\ DriftEvaluated
    /\ df = ExampleDriftTable
    /\ cfg = [date_field |-> "date"]
    /\ result.status = "FAIL"

\* C8 witness of a WARN on a drop: three periods, baseline of two
C8_WarnWitness ==
    /\ DriftEvaluated
    /\ CfgBaseline = 2
    /\ Cardinality(DistinctPeriods) = 3
    /\ result.status = "WARN"
    /\ result.pct_change.num < 0

\* C9: whenever the returned status is not PASS the issues hold exactly one
\* issue, which is not record-level; whenever it is PASS they are empty.
C9_Original ==
    (DriftRan /\ ~result.raised) =>
        /\ (result.status # "PASS") =>
               /\ Len(result.issues) = 1
               /\ result.issues[1].record_index = <<>>
        /\ (result.status = "PASS") => result.issues = <<>>

\* C10: with the date field a column and the number of distinct periods
\* among the parseable rows <= baseline_periods (zero periods included),
\* the call returns PASS with pct_change = 0, no issues and the 'not enough
\* historical periods' note.
C10_Original ==
    (DriftRan /\ DateFieldPresent /\ Cardinality(DistinctPeriods) <= CfgBaseline) =>
        /\ ~result.raised
        /\ result.status = "PASS"
        /\ result.pct_change.num = 0
        /\ result.issues = <<>>
        /\ result.notes.text = "Not enough historical periods to evaluate drift"

\* Where C9 does hold: in every result returned with the date field present
C9_HoldsWithDateField ==
    (DriftRan /\ ~result.raised /\ DateFieldPresent) =>
        /\ (result.status # "PASS") =>
               /\ Len(result.issues) = 1
               /\ result.issues[1].record_index = <<>>
        /\ (result.status = "PASS") => result.issues = <<>>

\* Where C10 does hold: with at least one period and no more than
\* baseline_periods
C10_HoldsWithAPeriod ==
    (DriftRan /\ DateFieldPresent /\ DistinctPeriods # {}
       /\ Cardinality(DistinctPeriods) <= CfgBaseline) =>
        /\ ~result.raised
        /\ result.status = "PASS"
        /\ result.pct_change.num = 0
        /\ result.issues = <<>>
        /\ result.notes.text = "Not enough historical periods to evaluate drift"

\* ------------------------------------------ claims: every check, failures

Statuses == {"PASS", "WARN", "FAIL"}

\* C11: each check, on every table (zero rows, no parseable date and absent
\* configured columns included) and every configuration, runs to completion
\* without raising and returns a status that is PASS, WARN or FAIL.
C11_Original ==
    (pc = "done") => (~result.raised /\ result.status \in Statuses)

\* The run that breaks C11: the date field is a column and no date parses
C11_DriftRaises ==
    /\ DriftRan
    /\ DateFieldPresent
    /\ Parseable = {}
    /\ result.raised
    /\ result.error = "IndexError"

\* The names the configuration gives that are not columns of the table
AbsentConfigured ==
    IF result.check = "completeness"
    THEN { cfg.required_fields[j] : j \in 1..Len(cfg.required_fields) } \ df.cols
    ELSE IF result.check = "duplicates"
    THEN { cfg.keys[k] : k \in 1..Len(cfg.keys) } \ df.cols
    ELSE IF result.check = "consistency"
    THEN IF "rules" \in DOMAIN cfg
         THEN UNION { (IF "when" \in DOMAIN cfg.rules[r]
                       THEN {cfg.rules[r].when.field} ELSE {})
                      \cup ThenFields(cfg.rules[r]) : r \in 1..Len(cfg.rules) }
              \ df.cols
         ELSE {}
    ELSE IF "date_field" \in DOMAIN cfg THEN {cfg.date_field} \ df.cols ELSE {}

\* C12: in every check a configured column or field absent from the table
\* yields a status of WARN or FAIL and at least one config-level issue
\* (record_index null) among the issues.
C12_Original ==
    (pc = "done" /\ ~result.raised /\ AbsentConfigured # {}) =>
        /\ result.status \in {"WARN", "FAIL"}
        /\ ConfigLevel(result.issues) # {}

\* The run that breaks C12: drift with a date_field that is no column
\* returns WARN and no issue at all
C12_DriftNoIssue ==
    /\ DriftRan
    /\ AbsentConfigured # {}
    /\ result.status = "WARN"
    /\ result.issues = <<>>

\* ------------------------------------------- claims: drift, period counts

\* The periods the check counted
CountedPeriods == PeriodCounts(df, cfg.date_field, CfgPeriod)

\* A calendar period just before the latest one holds no row
GapBeforeLatest == DistinctPeriods # {} /\ (LatestPeriod - 1) \notin DistinctPeriods

\* C17: only periods holding at least one row with a parseable date are
\* counted, so every period count is >= 1; whenever the evaluation branch is
\* reached (baseline_periods >= 1) baseline_avg > 0, pct_change is the
\* quotient and not the substituted 1.0, and pct_change > -1; empty calendar
\* periods between observed ones are not represented, the baseline being
\* taken over the preceding observed periods.
C17_ObservedPeriods ==
    (DriftRan /\ DateFieldPresent) =>
        /\ LET counts == CountedPeriods
           IN  /\ { counts[k].period : k \in 1..Len(counts) } = DistinctPeriods
               /\ \A k \in 1..Len(counts) :
                     /\ counts[k].size >= 1
                     /\ counts[k].size = RowsIn({counts[k].period})
        /\ DriftEvaluated =>
              LET n == CfgBaseline
                  latest == RowsIn({LatestPeriod})
                  base == BaselinePeriodSet
                  bsum == RowsIn(base)
                  avg == result.baseline_avg
                  pct == result.pct_change
              IN  /\ n >= 1
                  /\ Cardinality(base) = n
                  /\ bsum >= n
                  /\ avg.den > 0 /\ avg.num > 0
                  /\ avg.num * n = bsum * avg.den
                  /\ pct.den > 0
                  /\ pct.num * bsum = (latest * n - bsum) * pct.den
                  /\ pct.num > -pct.den

\* C17 witness: an evaluation whose latest period follows an empty calendar
\* period; the baseline is the observed period before the gap
C17_Witness ==
    /\ DriftEvaluated
    /\ GapBeforeLatest
    /\ CfgBaseline = 1
    /\ CfgPeriod = "monthly"
    /\ result.baseline_avg.num > 0
    /\ result.latest_count < RowsIn(BaselinePeriodSet)

\* ------------------------------------------------------------ aggregator
\* The run after the four checks: scorecard, combined issues, fix list.
\* Here check, field and message are character sequences, so that the
\* order pandas sorts them in is computed.

\* Largest number of issues of one generated check result
MaxIssues == 2

\* The characters of code points 32 to 126, in code point order
Ascii ==
    <<" ", "!", "\"", "#", "$", "%", "&", "'", "(", ")", "*", "+", ",",
      "-", ".", "/", "0", "1", "2", "3", "4", "5", "6", "7", "8", "9", ":",
      ";", "<", "=", ">", "?", "@", "A", "B", "C", "D", "E", "F", "G", "H",
      "I", "J", "K", "L", "M", "N", "O", "P", "Q", "R", "S", "T", "U", "V",
      "W", "X", "Y", "Z", "[", "\\", "]", "^", "_", "grave", "a", "b", "c",
      "d", "e", "f", "g", "h", "i", "j", "k", "l", "m", "n", "o", "p", "q",
      "r", "s", "t", "u", "v", "w", "x", "y", "z", "{", "|", "}", "~">>

\* ord(c)
ord(c) == 31 + (CHOOSE k \in 1..Len(Ascii) : Ascii[k] = c)

\* a < b on str: by code points, a proper prefix first
RECURSIVE TextLt(_, _)
TextLt(a, b) ==
    IF b = <<>> THEN FALSE
    ELSE IF a = <<>> THEN TRUE
    ELSE IF Head(a) = Head(b) THEN TextLt(Tail(a), Tail(b))
    ELSE ord(Head(a)) < ord(Head(b))

\* The check names of the results and of the overall row
CheckName ==
    [ completeness |->
        <<"c", "o", "m", "p", "l", "e", "t", "e", "n", "e", "s", "s">>,
      duplicates |->
        <<"d", "u", "p", "l", "i", "c", "a", "t", "e", "s">>,
      consistency |->
        <<"c", "o", "n", "s", "i", "s", "t", "e", "n", "c", "y">>,
      drift |->
        <<"d", "r", "i", "f", "t">>,
      overall |->
        <<"o", "v", "e", "r", "a", "l", "l">> ]

\* The field names of the generated issues
FieldName ==
    [ age |->
        <<"a", "g", "e">>,
      sex |->
        <<"s", "e", "x">>,
      id |->
        <<"i", "d">>,
      approver_id |->
        <<"a", "p", "p", "r", "o", "v", "e", "r", "_", "i", "d">>,
      date |->
        <<"d", "a", "t", "e">> ]

\* The messages of the generated issues
Message ==
    [ MissingColumns |->
        <<"M", "i", "s", "s", "i", "n", "g", " ", "r", "e", "q", "u", "i",
          "r", "e", "d", " ", "c", "o", "l", "u", "m", "n", "s", " ", "i",
          "n", " ", "d", "a", "t", "a", "s", "e", "t", ":", " ", "[", "'",
          "s", "i", "t", "e", "'", "]">>,
      MissingValue_age |->
        <<"M", "i", "s", "s", "i", "n", "g", " ", "r", "e", "q", "u", "i",
          "r", "e", "d", " ", "v", "a", "l", "u", "e", " ", "f", "o", "r",
          " ", "'", "a", "g", "e", "'">>,
      MissingValue_sex |->
        <<"M", "i", "s", "s", "i", "n", "g", " ", "r", "e", "q", "u", "i",
          "r", "e", "d", " ", "v", "a", "l", "u", "e", " ", "f", "o", "r",
          " ", "'", "s", "e", "x", "'">>,
      MissingKeys |->
        <<"M", "i", "s", "s", "i", "n", "g", " ", "k", "e", "y", " ", "c",
          "o", "l", "u", "m", "n", "s", " ", "i", "n", " ", "d", "a", "t",
          "a", "s", "e", "t", ":", " ", "[", "'", "v", "i", "s", "i", "t",
          "'", "]">>,
      Duplicate |->
        <<"D", "u", "p", "l", "i", "c", "a", "t", "e", " ", "r", "e", "c",
          "o", "r", "d", " ", "d", "e", "t", "e", "c", "t", "e", "d", " ",
          "f", "o", "r", " ", "k", "e", "y", " ", "c", "o", "m", "b", "i",
          "n", "a", "t", "i", "o", "n">>,
      RuleC_Skipped |->
        <<"R", "u", "l", "e", " ", "'", "C", "'", " ", "s", "k", "i", "p",
          "p", "e", "d", ":", " ", "m", "i", "s", "s", "i", "n", "g", " ",
          "w", "h", "e", "n", ".", "f", "i", "e", "l", "d", " ", "'", "g",
          "h", "o", "s", "t", "'", " ", "i", "n", " ", "d", "a", "t", "a",
          "s", "e", "t">>,
      RuleA_Required |->
        <<"R", "u", "l", "e", " ", "'", "A", "'", ":", " ", "'", "s", "t",
          "a", "t", "u", "s", "'", " ", "i", "s", " ", "'", "y", "'", " ",
          "s", "o", " ", "'", "a", "p", "p", "r", "o", "v", "e", "r", "_",
          "i", "d", "'", " ", "i", "s", " ", "r", "e", "q", "u", "i", "r",
          "e", "d">>,
      RuleB_Expected |->
        <<"R", "u", "l", "e", " ", "'", "B", "'", ":", " ", "e", "x", "p",
          "e", "c", "t", "e", "d", " ", "'", "a", "p", "p", "r", "o", "v",
          "e", "r", "_", "i", "d", "'", " ", "=", "=", " ", "'", "y", "'",
          " ", "w", "h", "e", "n", " ", "'", "s", "t", "a", "t", "u", "s",
          "'", " ", "=", "=", " ", "'", "y", "'", " ", "(", "g", "o", "t",
          " ", "'", "n", "a", "n", "'", ")">>,
      Drift |->
        <<"V", "o", "l", "u", "m", "e", " ", "d", "r", "i", "f", "t", " ",
          "d", "e", "t", "e", "c", "t", "e", "d", " ", "f", "o", "r", " ",
          "2", "0", "2", "4", "-", "0", "3", ":", " ", "-", "9", "0", ".",
          "0", "%", " ", "c", "h", "a", "n", "g", "e", " ", "v", "s", " ",
          "b", "a", "s", "e", "l", "i", "n", "e", " ", "a", "v", "g", " ",
          "(", "1", "0", "0", ".", "0", ")">> ]

\* A check's result as the aggregator reads it
CheckResult(check, status, notes, issues) ==
    [check |-> check, status |-> status, notes |-> notes, issues |-> issues]

\* order = {"PASS": 0, "WARN": 1, "FAIL": 2}
order == [PASS |-> 0, WARN |-> 1, FAIL |-> 2]

\* Mutant: the statuses compared as text, FAIL < PASS < WARN
OrderKey_Text(s) == IF s = "FAIL" THEN 0 ELSE IF s = "PASS" THEN 1 ELSE 2

\* key=lambda s: order.get(s, 2)
OrderKey(s) == IF s \in DOMAIN order THEN order[s] ELSE 2

\* max(statuses, key=...): the first of the elements with the largest key
worst(statuses) ==
    LET i == CHOOSE i \in 1..Len(statuses) :
                 /\ \A j \in 1..Len(statuses) : OrderKey(statuses[j]) <= OrderKey(statuses[i])
                 /\ \A j \in 1..(i - 1) : OrderKey(statuses[j]) < OrderKey(statuses[i])
    IN  statuses[i]

ScorecardRow(check, status, notes) ==
    [check |-> check, status |-> status, notes |-> notes]

\* rows = [comp, dups, cons, drift rows]; rows.append(overall row)
scorecard_rows(c) ==
    << ScorecardRow(c.comp.check, c.comp.status, c.comp.notes),
       ScorecardRow(c.dups.check, c.dups.status, c.dups.notes),
       ScorecardRow(c.cons.check, c.cons.status, c.cons.notes),
       ScorecardRow(c.drift.check, c.drift.status, c.drift.notes) >>
    \o << ScorecardRow(CheckName.overall,
            worst(<<c.comp.status, c.dups.status, c.cons.status, c.drift.status>>),
            "Worst-of check statuses") >>

\* all_issues: the non-empty issue tables in the order comp, dups, cons,
\* drift; pd.concat(all_issues, ignore_index=True), or the empty table
concat_issues(c) ==
    (IF c.comp.issues # <<>> THEN c.comp.issues ELSE <<>>)
    \o (IF c.dups.issues # <<>> THEN c.dups.issues ELSE <<>>)
    \o (IF c.cons.issues # <<>> THEN c.cons.issues ELSE <<>>)
    \o (IF c.drift.issues # <<>> THEN c.drift.issues ELSE <<>>)

\* The grouping key of an issue row
Signature(issue) ==
    [check |-> issue.check, field |-> issue.field, message |-> issue.message]

\* Mutant: a null counts as the empty string and comes first
NullFirstLt(a, b) ==
    IF b = None THEN FALSE
    ELSE IF a = None THEN TRUE
    ELSE TextLt(a[1], b[1])

\* Ascending order of a column that may hold nulls: the nulls come last
NullLastLt(a, b) ==
    IF a = None THEN FALSE
    ELSE IF b = None THEN TRUE
    ELSE TextLt(a[1], b[1])

\* The order groupby(sort=True) puts the group keys in
GroupKeyLt(g, h) ==
    \/ TextLt(g.check, h.check)
    \/ g.check = h.check /\ NullLastLt(g.field, h.field)
    \/ g.check = h.check /\ g.field = h.field /\ TextLt(g.message, h.message)

\* Mutant: groupby with its default dropna=True leaves out the groups
\* whose key holds a null
GroupKeys_DropNa(issues) ==
    { Signature(issues[k]) : k \in { k \in 1..Len(issues) : issues[k].field # None } }

\* groupby([...], dropna=False): one group per signature, nulls kept
GroupKeys(issues) == { Signature(issues[k]) : k \in 1..Len(issues) }

\* The position of group g among the sorted group keys
GroupRank(keys, issues, g) == 1 + Cardinality({ h \in keys : GroupKeyLt(h, g) })

\* .size().reset_index(name="count"): a row per group, in group order
groupby_size(issues) ==
    LET keys == GroupKeys(issues)
    IN  [n \in 1..Cardinality(keys) |->
            LET g == CHOOSE g \in keys : GroupRank(keys, issues, g) = n
            IN  [check |-> g.check, field |-> g.field, message |-> g.message,
                 count |-> Cardinality({ k \in 1..Len(issues) :
                                            Signature(issues[k]) = g })]]

\* Row a sorts before row b under sort_values(["count", "check", "field"],
\* ascending=[False, True, True]), na_position "last"
SortKeyLt(a, b) ==
    \/ a.count > b.count
    \/ a.count = b.count /\ TextLt(a.check, b.check)
    \/ a.count = b.count /\ a.check = b.check /\ NullLastLt(a.field, b.field)

\* sort_values on several columns: a stable sort
sort_values(rows) ==
    LET Before(i, j) ==
            \/ SortKeyLt(rows[i], rows[j])
            \/ ~SortKeyLt(rows[j], rows[i]) /\ i < j
        Place(i) == 1 + Cardinality({ j \in 1..Len(rows) : Before(j, i) })
    IN  [n \in 1..Len(rows) |-> rows[CHOOSE i \in 1..Len(rows) : Place(i) = n]]

\* write_fix_list: the rows written to the fix list
write_fix_list(issues) ==
    IF issues = <<>> THEN <<>>
    ELSE sort_values(groupby_size(issues))

\* Inputs of the aggregator: results the four checks return

\* Sequences of 1 to n elements of S
SeqsUpTo(S, n) == UNION { [1..k -> S] : k \in 1..n }

\* Record-level completeness issues, one per listed field, of successive rows
MissingValueIssues(fields) ==
    [k \in 1..Len(fields) |->
        Issue(CheckName.completeness, Some(k - 1), Some(fields[k]),
              IF fields[k] = FieldName.age THEN Message.MissingValue_age
              ELSE Message.MissingValue_sex,
              "Populate the field or mark explicitly (NA/UNKNOWN) where appropriate.")]

\* No issue (all present, or no rows); the one config-level issue of a
\* missing column, with FAIL; or record-level issues, the status depending
\* on the thresholds
CompResults ==
    { CheckResult(CheckName.completeness, st, "Completeness rate", <<>>) : st \in Statuses }
    \cup
    { CheckResult(CheckName.completeness, "FAIL", "Required columns missing",
        << Issue(CheckName.completeness, None, None, Message.MissingColumns,
                 "Update field mapping or provide these columns in the input.") >>) }
    \cup
    { CheckResult(CheckName.completeness, st, "Completeness rate", MissingValueIssues(fs)) :
        st \in Statuses, fs \in SeqsUpTo({FieldName.age, FieldName.sex}, MaxIssues) }

\* No duplicate row, with PASS; a missing key column, with FAIL; or two and
\* more duplicate rows, the status depending on the thresholds
DupsResults ==
    { CheckResult(CheckName.duplicates, "PASS", "Duplicate rate", <<>>),
      CheckResult(CheckName.duplicates, "FAIL", "Key columns missing",
        << Issue(CheckName.duplicates, None, None, Message.MissingKeys,
                 "Update keys or add/match these columns in input/mapping.") >>) }
    \cup
    { CheckResult(CheckName.duplicates, st, "Duplicate rate",
        [k \in 1..n |->
            Issue(CheckName.duplicates, Some(k - 1), Some(FieldName.id), Message.Duplicate,
                  "De-duplicate upstream, or adjust keys if the duplication is expected.")]) :
        st \in Statuses, n \in 2..Max(2, MaxIssues) }

\* The issues of rules A, B and C on a one-row table, in rule order
ConsIssuePool ==
    { Issue(CheckName.consistency, None, None, Message.RuleC_Skipped,
            "Fix field mapping or adjust rule configuration."),
      Issue(CheckName.consistency, Some(0), Some(FieldName.approver_id), Message.RuleA_Required,
            "Populate the field for this record, or correct the when field if misclassified."),
      Issue(CheckName.consistency, Some(0), Some(FieldName.approver_id), Message.RuleB_Expected,
            "Set the field to the expected value or correct the when field.") }

\* The status of the consistency check follows from its issues
ConsResults ==
    { CheckResult(CheckName.consistency,
        IF \E k \in 1..Len(iss) : iss[k].record_index # None THEN "FAIL"
        ELSE IF iss # <<>> THEN "WARN" ELSE "PASS",
        "rule(s) evaluated", iss) :
        iss \in {<<>>} \cup SeqsUpTo(ConsIssuePool, MaxIssues) }

\* PASS without an issue, WARN without one (date field missing), or WARN and
\* FAIL with the one drift issue
DriftResults ==
    { CheckResult(CheckName.drift, "PASS", "Not enough historical periods to evaluate drift", <<>>),
      CheckResult(CheckName.drift, "WARN", "Date field missing; drift skipped", <<>>) }
    \cup
    { CheckResult(CheckName.drift, st, "records vs baseline avg",
        << Issue(CheckName.drift, None, Some(FieldName.date), Message.Drift,
                 "Verify reporting completeness, backlogs, or duplicate submissions for this period.") >>) :
        st \in {"WARN", "FAIL"} }

AggregateInit ==
    /\ df = NoTable
    /\ cfg = NoCfg
    /\ result = NoResult
    /\ df_std = NoTable
    /\ checks \in [comp : CompResults, dups : DupsResults,
                   cons : ConsResults, drift : DriftResults]
    /\ scorecard = <<>>
    /\ issues_combined = <<>>
    /\ fix_list = <<>>
    /\ pc = "checked"

WriteScorecard ==
    /\ pc = "checked"
    /\ scorecard' = scorecard_rows(checks)
    /\ pc' = "scored"
    /\ UNCHANGED <<df, cfg, result, df_std, checks, issues_combined, fix_list>>

CombineIssues ==
    /\ pc = "scored"
    /\ issues_combined' = concat_issues(checks)
    /\ pc' = "combined"
    /\ UNCHANGED <<df, cfg, result, df_std, checks, scorecard, fix_list>>

WriteFixList ==
    /\ pc = "combined"
    /\ fix_list' = write_fix_list(issues_combined)
    /\ pc' = "written"
    /\ UNCHANGED <<df, cfg, result, df_std, checks, scorecard, issues_combined>>

AggregateNext == WriteScorecard \/ CombineIssues \/ WriteFixList

SpecAggregate == AggregateInit /\ [][AggregateNext]_vars

\* ---------------------------------------------------- claims: aggregator

\* The four statuses the scorecard was built from
CheckStatuses ==
    <<checks.comp.status, checks.dups.status, checks.cons.status, checks.drift.status>>

\* The maximum under PASS < WARN < FAIL
WorstOf(statuses) ==
    IF \E k \in 1..Len(statuses) : statuses[k] = "FAIL" THEN "FAIL"
    ELSE IF \E k \in 1..Len(statuses) : statuses[k] = "WARN" THEN "WARN"
    ELSE "PASS"

\* C13: the scorecard has one row per check in the order completeness,
\* duplicates, consistency, drift, then one overall row; for every
\* combination of the four statuses the overall status is their maximum
\* under PASS < WARN < FAIL.
C13_Scorecard ==
    (pc \in {"scored", "combined", "written"}) =>
        /\ Len(scorecard) = 5
        /\ [k \in 1..5 |-> scorecard[k].check]
             = <<CheckName.completeness, CheckName.duplicates,
                 CheckName.consistency, CheckName.drift, CheckName.overall>>
        /\ [k \in 1..4 |-> scorecard[k].status] = CheckStatuses
        /\ scorecard[5].status = WorstOf(CheckStatuses)

\* C13 witness: the overall row is FAIL although a WARN comes later in the
\* list of statuses
C13_Witness ==
    /\ pc = "scored"
    /\ CheckStatuses = <<"PASS", "FAIL", "WARN", "WARN">>
    /\ scorecard[5].status = "FAIL"

\* ------------------------------------------------------ claims: fix list

FixListWritten == pc = "written"

\* The issue rows carrying the signature of a fix list entry
RowsWith(entry) ==
    { k \in 1..Len(issues_combined) :
        /\ issues_combined[k].check = entry.check
        /\ issues_combined[k].field = entry.field
        /\ issues_combined[k].message = entry.message }

RECURSIVE SumCounts(_)
SumCounts(entries) ==
    IF entries = <<>> THEN 0 ELSE Head(entries).count + SumCounts(Tail(entries))

\* C14: the fix list has exactly one entry per distinct (check, field,
\* message) signature of the combined issues, a null field included; an
\* entry's count is the number of issues with its signature, so the counts
\* sum to the number of issue rows, and the fix list is empty iff there is
\* no issue.
C14_FixListGroups ==
    FixListWritten =>
        /\ \A k \in 1..Len(issues_combined) :
              Cardinality({ n \in 1..Len(fix_list) : k \in RowsWith(fix_list[n]) }) = 1
        /\ \A n \in 1..Len(fix_list) :
              /\ RowsWith(fix_list[n]) # {}
              /\ fix_list[n].count = Cardinality(RowsWith(fix_list[n]))
        /\ SumCounts(fix_list) = Len(issues_combined)
        /\ (fix_list = <<>>) = (issues_combined = <<>>)

\* C14 witness: a signature with a null field occurring twice, beside
\* signatures with a named field
C14_Witness ==
    /\ FixListWritten
    /\ \E n \in 1..Len(fix_list) : fix_list[n].field = None /\ fix_list[n].count = 2
    /\ \E n \in 1..Len(fix_list) : fix_list[n].field # None
    /\ Len(fix_list) < Len(issues_combined)

\* The row at which an entry's signature first appears among the issues
FirstSeen(entry) == CHOOSE k \in RowsWith(entry) : \A j \in RowsWith(entry) : k <= j

\* A field as text, a null one as the empty string
FieldText(field) == IF field = None THEN <<>> ELSE field[1]

\* Entry a may stand directly before entry b under the stated order: count
\* descending, check ascending, field ascending with a null as the empty
\* string, then first appearance
StatedOrder(a, b) ==
    \/ a.count > b.count
    \/ a.count = b.count /\ TextLt(a.check, b.check)
    \/ a.count = b.count /\ a.check = b.check
         /\ TextLt(FieldText(a.field), FieldText(b.field))
    \/ a.count = b.count /\ a.check = b.check
         /\ FieldText(a.field) = FieldText(b.field)
         /\ FirstSeen(a) < FirstSeen(b)

\* C15 as stated: the fix list is ordered by count descending, then check
\* ascending, then field ascending with a null field treated as the empty
\* string (before every named field); entries equal on count, check and
\* field keep the order of first appearance of their signature.
C15_Original ==
    FixListWritten =>
        \A n \in 1..(Len(fix_list) - 1) : StatedOrder(fix_list[n], fix_list[n + 1])

\* Entry a may stand directly before entry b: count descending, check
\* ascending, field ascending with a null after every named field, then
\* message ascending
FixListOrder(a, b) ==
    \/ a.count > b.count
    \/ a.count = b.count /\ TextLt(a.check, b.check)
    \/ a.count = b.count /\ a.check = b.check
         /\ a.field # None /\ b.field # None /\ TextLt(a.field[1], b.field[1])
    \/ a.count = b.count /\ a.check = b.check
         /\ a.field # None /\ b.field = None
    \/ a.count = b.count /\ a.check = b.check /\ a.field = b.field
         /\ TextLt(a.message, b.message)

\* C15, amended: the fix list is ordered by count descending, then check
\* ascending, then field ascending with a null field after every named
\* field; entries equal on count, check and field are in ascending order of
\* their message.
C15_FixListOrder ==
    FixListWritten =>
        \A n \in 1..(Len(fix_list) - 1) : FixListOrder(fix_list[n], fix_list[n + 1])

\* C15 witness: two entries of one check with equal counts, the one with
\* the named field directly before the one with the null field, although
\* the null one appears first among the issues
C15_Witness ==
    /\ FixListWritten
    /\ \E n \in 1..(Len(fix_list) - 1) :
          /\ fix_list[n].count = fix_list[n + 1].count
          /\ fix_list[n].check = fix_list[n + 1].check
          /\ fix_list[n].field # None
          /\ fix_list[n + 1].field = None
          /\ FirstSeen(fix_list[n + 1]) < FirstSeen(fix_list[n])

\* C15 witness of the tie: equal count, check and field, the messages
\* ascending against the order of first appearance
C15_TieWitness ==
    /\ FixListWritten
    /\ \E n \in 1..(Len(fix_list) - 1) :
          /\ fix_list[n].count = fix_list[n + 1].count
          /\ fix_list[n].check = fix_list[n + 1].check
          /\ fix_list[n].field = fix_list[n + 1].field
          /\ TextLt(fix_list[n].message, fix_list[n + 1].message)
          /\ FirstSeen(fix_list[n + 1]) < FirstSeen(fix_list[n])

\* ---------------------------------------------------- apply_missing_labels
\* A configured token is None or a text: <<>> or <<text>>.

\* Largest number of rows of a table given to apply_missing_labels
MaxStdRows == 1

\* _to_set: None kept, the texts stripped
_to_set(values) ==
    { IF values[k] = None THEN None ELSE Some(strip(values[k][1])) :
        k \in 1..Len(values) }

\* df2[c].dtype == "object": the column holds text (a column of numbers and
\* blanks is numeric; every column of a table without rows is object)
IsObject(d, c) ==
    \/ NRows(d) = 0
    \/ \E i \in 1..NRows(d) : d.rows[i][c].k = "str"

\* x in values, for a cell x: a text is found by equality; NaN and numbers
\* equal neither None nor a text
InValues(x, values) == x.k = "str" /\ Some(x.v) \in values

\* lambda x: x.strip() if isinstance(x, str) else x
StripCell(x) == IF x.k = "str" THEN StrCell(strip(x.v)) ELSE x

\* lambda x: label if (x in values) else x
Relabel(x, values, label) == IF InValues(x, values) THEN StrCell(label) ELSE x

\* Mutant: every test on the stripped original value, the last match winning
MapCell_OnOriginal(x, unknown_values, no_values, na_values) ==
    LET s0 == StripCell(x)
    IN  IF InValues(s0, na_values) THEN StrCell(T_NA)
        ELSE IF InValues(s0, no_values) THEN StrCell(T_NO)
        ELSE IF InValues(s0, unknown_values) THEN StrCell(T_UNKNOWN)
        ELSE s0

\* The four s.apply(...) of one column, on one cell: each on the value the
\* one before it returned
MapCell(x, unknown_values, no_values, na_values) ==
    LET s0 == StripCell(x)
        s1 == Relabel(s0, unknown_values, T_UNKNOWN)
        s2 == Relabel(s1, no_values, T_NO)
    IN  Relabel(s2, na_values, T_NA)

apply_missing_labels(d, c) ==
    LET ml == IF c = NoCfg THEN NoCfg ELSE Get(c, "missing_labels", NoCfg)
        na_values == _to_set(Get(ml, "na_values", <<>>))
        no_values == _to_set(Get(ml, "no_values", <<>>))
        unknown_values == _to_set(Get(ml, "unknown_values", <<>>))
    IN  [cols |-> d.cols,
         rows |-> [i \in 1..NRows(d) |->
                     [col \in d.cols |->
                        IF IsObject(d, col)
                        THEN MapCell(d.rows[i][col], unknown_values, no_values, na_values)
                        ELSE d.rows[i][col]]]]

\* Inputs of apply_missing_labels

\* The tokens a list may hold: a text to be stripped, two of the labels, None
StdTokens == << Some(<<"x", " ">>), Some(T_UNKNOWN), Some(T_NO), None >>

\* One list per set of tokens
TokenLists ==
    { [k \in 1..Cardinality(I) |->
         StdTokens[CHOOSE i \in I : Cardinality({ j \in I : j < i }) = k - 1]] :
        I \in SUBSET (1..Len(StdTokens)) }

\* A text column and a numeric one
StdVals ==
    [answer |-> { Null, StrCell(<<" ", "x", " ">>), StrCell(T_NO), StrCell(T_UNKNOWN),
                  StrCell(<<"q">>) },
     visits |-> { Null, IntCell(<<"0">>) }]

\* No configuration, one without missing_labels, one with na_values only,
\* and every choice of the three lists
StdCfgs ==
    { NoCfg, [date_field |-> None],
      [missing_labels |-> [na_values |-> <<Some(<<"x">>), None>>]] }
    \cup
    { [missing_labels |-> [na_values |-> a, no_values |-> n, unknown_values |-> u]] :
        a \in TokenLists, n \in TokenLists, u \in TokenLists }

StandardizeInit ==
    /\ df \in TablesBy(StdVals, MaxStdRows)
    /\ cfg = NoCfg
    /\ result = NoResult
    /\ RunNotStarted
    /\ pc = "loaded"

\* df_std = apply_missing_labels(df, cfg.get("standardization", {}))
Standardize ==
    /\ pc = "loaded"
    /\ \E c \in StdCfgs :
         /\ cfg' = c
         /\ df_std' = apply_missing_labels(df, c)
    /\ pc' = "standardized"
    /\ UNCHANGED <<df, result, checks, scorecard, issues_combined, fix_list>>

StandardizeNext == Standardize

SpecStandardize == StandardizeInit /\ [][StandardizeNext]_vars

\* -------------------------------------------- claims: apply_missing_labels

Standardized == pc = "standardized"

\* The configured list of a key, as trimmed texts and None
ConfiguredValues(key) ==
    IF "missing_labels" \in DOMAIN cfg /\ key \in DOMAIN cfg.missing_labels
    THEN { IF cfg.missing_labels[key][k] = None THEN None
           ELSE Some(TrimmedText(StrCell(cfg.missing_labels[key][k][1]))) :
             k \in 1..Len(cfg.missing_labels[key]) }
    ELSE {}

\* The text cells of the input: (row, column) pairs
TextCells ==
    { <<i, c>> \in (1..Len(df.rows)) \X df.cols : df.rows[i][c].k = "str" }

\* The columns of the input that hold no text
NonTextCols == { c \in df.cols : \A i \in 1..Len(df.rows) : df.rows[i][c].k # "str" }

SameShape == df_std.cols = df.cols /\ Len(df_std.rows) = Len(df.rows)

NonTextUnchanged ==
    \A c \in NonTextCols : \A i \in 1..Len(df.rows) : df_std.rows[i][c] = df.rows[i][c]

\* The label of the last set, in the order UNKNOWN, NO, NA, that holds the
\* text t; t itself when none does
LastMatch(t) ==
    IF Some(t) \in ConfiguredValues("na_values") THEN T_NA
    ELSE IF Some(t) \in ConfiguredValues("no_values") THEN T_NO
    ELSE IF Some(t) \in ConfiguredValues("unknown_values") THEN T_UNKNOWN
    ELSE t

\* C16 as stated: every text cell ends with the label of the last set, in
\* the order UNKNOWN, NO, NA, that holds its trimmed original value (last
\* write wins), for every choice of the three sets, the labels themselves
\* included; cells of non-text columns are unchanged.
C16_Original ==
    Standardized =>
        /\ SameShape
        /\ \A ic \in TextCells :
              df_std.rows[ic[1]][ic[2]]
                = StrCell(LastMatch(TrimmedText(df.rows[ic[1]][ic[2]])))
        /\ NonTextUnchanged

\* The label a text t ends with when each test after the first is made on
\* the value the mapping before it left: the first set holding t decides,
\* and a label just written is relabelled by a later set that holds it
ChainedLabel(t) ==
    LET NoThenNa == IF Some(T_NO) \in ConfiguredValues("na_values") THEN T_NA ELSE T_NO
    IN  IF Some(t) \in ConfiguredValues("unknown_values")
        THEN IF Some(T_UNKNOWN) \in ConfiguredValues("no_values") THEN NoThenNa
             ELSE IF Some(T_UNKNOWN) \in ConfiguredValues("na_values") THEN T_NA
             ELSE T_UNKNOWN
        ELSE IF Some(t) \in ConfiguredValues("no_values") THEN NoThenNa
        ELSE IF Some(t) \in ConfiguredValues("na_values") THEN T_NA
        ELSE t

LabelsChained ==
    /\ SameShape
    /\ \A ic \in TextCells :
          df_std.rows[ic[1]][ic[2]]
            = StrCell(ChainedLabel(TrimmedText(df.rows[ic[1]][ic[2]])))
    /\ NonTextUnchanged

\* C16, amended: the mappings are applied in the order UNKNOWN, NO, NA, the
\* first test on the cell's trimmed value and each later test on the value
\* the mapping before it left, so a value held by several sets ends with
\* the label of the first of them unless a later set holds that label
\* itself, which is then relabelled; cells of non-text columns are
\* unchanged and the call leaves its input table as it was.
C16_ChainedLabels ==
    [][(pc' = "standardized") => (df' = df /\ LabelsChained')]_vars

\* C16 witness: a value held by unknown_values and no_values, neither
\* no_values nor na_values holding a label, ends UNKNOWN
C16_Witness ==
    /\ Standardized
    /\ ConfiguredValues("no_values") = {Some(<<"x">>)}
    /\ ConfiguredValues("unknown_values") = {Some(<<"x">>)}
    /\ ConfiguredValues("na_values") = {None}
    /\ \E ic \in TextCells :
          /\ df.rows[ic[1]][ic[2]] = StrCell(<<" ", "x", " ">>)
          /\ df_std.rows[ic[1]][ic[2]] = StrCell(T_UNKNOWN)

\* C16 witness of a relabelled label: the value is held by unknown_values
\* alone, no_values holds "UNKNOWN", and the cell ends NO
C16_CascadeWitness ==
    /\ Standardized
    /\ ConfiguredValues("unknown_values") = {Some(<<"x">>)}
    /\ ConfiguredValues("no_values") = {Some(T_UNKNOWN)}
    /\ ConfiguredValues("na_values") = {}
    /\ \E ic \in TextCells :
          /\ df.rows[ic[1]][ic[2]] = StrCell(<<" ", "x", " ">>)
          /\ df_std.rows[ic[1]][ic[2]] = StrCell(T_NO)

====
